---- MODULE Spec2Model ----
(***************************************************************************)
(* A model of the pptx-to-video pipeline (src/main.py): notes extraction,  *)
(* slide export through PowerPoint, per-language translation, narration    *)
(* synthesis and video assembly, as run_pipeline sequences them.           *)
(*                                                                         *)
(* Strings are sequences of one-character strings, so that str.strip,      *)
(* str.endswith, sorted() and os.path.splitext are computed, not assumed.  *)
(* Times are in tenths of a second.                                        *)
(***************************************************************************)
EXTENDS Integers, Sequences, FiniteSets, TLC

(* ------------------------------ bounds -------------------------------- *)

\* Decks of up to MaxNotedSlides slides carry arbitrary notes.
MaxNotedSlides == 3
\* Longer decks, up to MaxSlides slides, are decks without narration.
MaxSlides == 10
\* An earlier run may have left the images of a deck of up to this many slides.
MaxStaleSlides == 2

(* ------------------------------ strings ------------------------------- *)

\* Python's None, as a value comparable with the records that stand for paths.
None == [none |-> TRUE]

Whitespace == {" ", "\n"}

Digits == <<"0", "1", "2", "3", "4", "5", "6", "7", "8", "9">>

\* The code point of a character (what Python's string comparison compares).
CodePoint(c) ==
    CASE c = "\n" -> 10
      [] c = " " -> 32
      [] c = "." -> 46
      [] c = "/" -> 47
      [] c = "0" -> 48 [] c = "1" -> 49 [] c = "2" -> 50 [] c = "3" -> 51
      [] c = "4" -> 52 [] c = "5" -> 53 [] c = "6" -> 54 [] c = "7" -> 55
      [] c = "8" -> 56 [] c = "9" -> 57
      [] c = "G" -> 71 [] c = "J" -> 74 [] c = "P" -> 80 [] c = "S" -> 83
      [] c = "\\" -> 92
      [] c = "_" -> 95
      [] c = "a" -> 97 [] c = "b" -> 98
      [] c = "d" -> 100 [] c = "e" -> 101 [] c = "g" -> 103
      [] c = "i" -> 105 [] c = "j" -> 106 [] c = "l" -> 108
      [] c = "p" -> 112 [] c = "x" -> 120

\* s < t in Python's ordering of str: lexicographic by code point.
RECURSIVE StrLess(_, _)
StrLess(s, t) ==
    IF t = <<>> THEN FALSE
    ELSE IF s = <<>> THEN TRUE
    ELSE IF Head(s) = Head(t) THEN StrLess(Tail(s), Tail(t))
    ELSE CodePoint(Head(s)) < CodePoint(Head(t))

\* str.lstrip() / str.rstrip() / str.strip()
RECURSIVE LStrip(_)
LStrip(s) ==
    IF s # <<>> /\ Head(s) \in Whitespace THEN LStrip(Tail(s)) ELSE s

RECURSIVE RStrip(_)
RStrip(s) ==
    IF s # <<>> /\ s[Len(s)] \in Whitespace
    THEN RStrip(SubSeq(s, 1, Len(s) - 1))
    ELSE s

Strip(s) == RStrip(LStrip(s))

\* str.endswith(suffix)
EndsWith(s, suffix) ==
    /\ Len(s) >= Len(suffix)
    /\ SubSeq(s, Len(s) - Len(suffix) + 1, Len(s)) = suffix

\* "\n".join(parts)
RECURSIVE JoinLines(_)
JoinLines(parts) ==
    IF parts = <<>> THEN <<>>
    ELSE IF Len(parts) = 1 THEN parts[1]
    ELSE parts[1] \o <<"\n">> \o JoinLines(Tail(parts))

\* str(k) for a natural number: unpadded decimal digits.
RECURSIVE Decimal(_)
Decimal(k) ==
    IF k < 10 THEN <<Digits[k + 1]>>
    ELSE Decimal(k \div 10) \o <<Digits[(k % 10) + 1]>>

\* sorted(S) for a finite set of strings.
RECURSIVE Sorted(_)
Sorted(S) ==
    IF S = {} THEN <<>>
    ELSE LET m == CHOOSE x \in S : \A y \in S \ {x} : StrLess(x, y)
         IN  <<m>> \o Sorted(S \ {m})

Min(a, b) == IF a <= b THEN a ELSE b

(* --------------------------- configuration ---------------------------- *)

LANGUAGES == <<
    [code |-> <<"e", "n">>, label |-> "English"],
    [code |-> <<"f", "r">>, label |-> "French"],
    [code |-> <<"e", "s">>, label |-> "Spanish"],
    [code |-> <<"p", "t">>, label |-> "Portuguese"],
    [code |-> <<"h", "i">>, label |-> "Hindi"],
    [code |-> <<"s", "i">>, label |-> "Sinhala"] >>

POST_AUDIO_PADDING == 15

DEFAULT_DURATION == 40

\* The directories main.py creates beside the script.
OUTPUT_DIR == "output_videos"

TMP_DIR == "tmp_assets"

SOURCE_LANGUAGE == <<"e", "n">>

(* ------------------------------ os.path ------------------------------- *)

Separators == {"/", "\\"}

\* str.rfind for a set of characters: the last index holding one, 0 if none.
LastIndexOf(p, chars) ==
    LET hits == {k \in 1..Len(p) : p[k] \in chars}
    IN  IF hits = {} THEN 0 ELSE CHOOSE k \in hits : \A j \in hits : j <= k

\* os.path.basename(p)
Basename(p) == SubSeq(p, LastIndexOf(p, Separators) + 1, Len(p))

\* os.path.splitext(p)[0]: cut at the last dot, unless that dot is before the
\* last separator or only dots precede it in the file name.
SplitextRoot(p) ==
    LET sepIndex == LastIndexOf(p, Separators)
        dotIndex == LastIndexOf(p, {"."})
    IN  IF /\ dotIndex > sepIndex
           /\ \E k \in (sepIndex + 1)..(dotIndex - 1) : p[k] # "."
        THEN SubSeq(p, 1, dotIndex - 1)
        ELSE p

\* os.path.join(dir, name), kept as its two parts.
PathJoin(dir, name) == [dir |-> dir, name |-> name]

(* --------------------------- input domains ---------------------------- *)

\* The notes of one slide as the deck holds them: no notes slide, or the
\* paragraphs of the notes text frame.
NoNotesSlide == [has_notes_slide |-> FALSE, paragraphs |-> <<>>]

NotesSlide(paragraphs) == [has_notes_slide |-> TRUE, paragraphs |-> paragraphs]

RawSlides ==
    { NoNotesSlide,
      NotesSlide(<< <<>> >>),
      NotesSlide(<< <<" ">> >>),
      NotesSlide(<< <<"a">> >>),
      NotesSlide(<< <<"\n">>, <<"a", " ">>, <<>> >>) }

RECURSIVE SeqsOfLen(_, _)
SeqsOfLen(S, n) ==
    IF n = 0 THEN {<<>>}
    ELSE {Append(q, x) : q \in SeqsOfLen(S, n - 1), x \in S}

SeqsUpTo(S, n) == UNION {SeqsOfLen(S, k) : k \in 0..n}

\* The decks the pipeline is run on: every deck of 1..MaxNotedSlides slides,
\* and the decks of up to MaxSlides slides none of which has notes.
Decks ==
    (SeqsUpTo(RawSlides, MaxNotedSlides) \ {<<>>})
        \cup {[k \in 1..n |-> NoNotesSlide] : n \in (MaxNotedSlides + 1)..MaxSlides}

\* Deck paths given on the command line.
PptxPaths ==
    { <<"a", ".", "p">>,
      <<"d", ".", "x", "/", "a", ".", "b", ".", "p">>,
      <<"d", "\\", ".", "a">> }

\* What the translation service may answer for a text: a translation, the
\* text itself, or nothing to narrate.
TranslatorResults(t) == { <<"x">>, t, <<" ">> }

\* Durations of a synthesized narration clip.
AudioDurations == {10, 25}

(* ------------------------------- state -------------------------------- *)

VARIABLES
    pc,               \* the position of the run
    pptx_path,        \* the deck path given to run_pipeline
    dir_files,        \* the file names in TMP_DIR/slide_image
    appRunning,       \* the PowerPoint application process is alive
    presOpen,         \* the presentation is open in it
    notes,            \* run_pipeline: the notes text of each slide
    images,           \* run_pipeline: what export_slides_as_images returned
    lang,             \* run_pipeline: index in languages of the current one
    lang_notes,       \* run_pipeline: the texts narrated for this language
    audio_files,      \* run_pipeline: one path or None for each slide
    texts,            \* translate_texts: its argument
    target_language,  \* translate_texts: its argument
    results,          \* translate_texts: the list it builds
    clips,            \* assemble_video: the clips built so far
    final,            \* assemble_video: the concatenated clips written
    translate_calls,  \* calls of translate_texts for this language
    translator_calls, \* translation service calls of the current translate_texts
    synth_calls,      \* calls of synthesize_speech for this language
    assemble_calls,   \* calls of assemble_video for this language
    events,           \* external steps of this language, in order
    phases,           \* the stages entered since the start, in order
    videos,           \* the video files written since the start, in order
    failed,           \* an exception was raised
    failedAt          \* the position that raised it

vars == << pc, pptx_path, dir_files, appRunning, presOpen, notes, images, lang,
           lang_notes, audio_files, texts, target_language, results, clips,
           final, translate_calls, translator_calls, synth_calls,
           assemble_calls, events, phases, videos, failed, failedAt >>

exportVars == << dir_files, appRunning, presOpen, images >>

translateVars == << texts, target_language, results, translator_calls >>

assembleVars == << clips, final, assemble_calls, videos >>

langVars == << lang, lang_notes, audio_files, translate_calls, synth_calls, events >>

errorVars == << failed, failedAt >>

(* ------------------------- the pure functions ------------------------- *)

\* extract_notes_from_pptx: the notes text of one slide.
NotesText(slide) ==
    IF slide.has_notes_slide THEN Strip(JoinLines(slide.paragraphs)) ELSE <<>>

\* The file name PowerPoint's JPG export gives the k-th slide.
SlideImageName(k) == <<"S", "l", "i", "d", "e">> \o Decimal(k) \o <<".", "J", "P", "G">>

\* export_slides_as_images: the list it returns for the directory's contents.
ListImages(files) ==
    LET base == PathJoin(TMP_DIR, "slide_image")
        kept == SelectSeq(Sorted(files), LAMBDA f : EndsWith(f, <<".", "J", "P", "G">>))
    IN  [k \in 1..Len(kept) |-> PathJoin(base, kept[k])]

\* translate_texts with `if not t:` in place of `if not t.strip():`.
IsTranslated_NoStrip(t) == t # <<>>

\* translate_texts: a text that is sent to the translation service.
IsTranslated(t) == Strip(t) # <<>>

\* run_pipeline translating for every language, the source language too.
NeedsTranslation_Always(code) == TRUE

\* run_pipeline: the language needs a translate_texts call.
NeedsTranslation(code) == code # SOURCE_LANGUAGE

\* run_pipeline with `if txt:` in place of `if txt.strip():`.
IsNarrated_NoStrip(txt) == txt # <<>>

\* run_pipeline: a text that is narrated.
IsNarrated(txt) == Strip(txt) # <<>>

\* run_pipeline: the path of the narration of slide i (0-based) in a language.
AudioPath(i, code) ==
    PathJoin(TMP_DIR, <<"s", "l", "i", "d", "e", "_">> \o Decimal(i + 1) \o <<"_">>
                        \o code \o <<".", "m", "p", "3">>)

\* run_pipeline taking splitext of the whole path, without basename.
OutFile_NoBasename(path, code) ==
    PathJoin(OUTPUT_DIR, SplitextRoot(path) \o <<"_">> \o code
                            \o <<".", "m", "p", "4">>)

\* run_pipeline: the output file of a language.
OutFile(path, code) ==
    PathJoin(OUTPUT_DIR, SplitextRoot(Basename(path)) \o <<"_">> \o code
                            \o <<".", "m", "p", "4">>)

\* assemble_video: `if aud:`.
HasAudio(aud) == aud # None

\* assemble_video without the padding after the narration.
SlideClip_NoPadding(img, aud, d) ==
    IF aud # None
    THEN [img |-> img, duration |-> d, audio |-> [path |-> aud, duration |-> d]]
    ELSE [img |-> img, duration |-> DEFAULT_DURATION, audio |-> None]

\* assemble_video: the clip of one (image, audio) pair; d is the duration of
\* the audio file when there is one.
SlideClip(img, aud, d) ==
    IF HasAudio(aud)
    THEN [img |-> img, duration |-> d + POST_AUDIO_PADDING,
          audio |-> [path |-> aud, duration |-> d]]
    ELSE [img |-> img, duration |-> DEFAULT_DURATION, audio |-> None]

\* zip(slide_images, audio_files): the number of pairs.
ZipLen(a, b) == Min(Len(a), Len(b))

\* The positions of run_pipeline's loop over the languages.
LanguageSites == {"translate", "narrate", "assemble"}

\* run_pipeline with a handler around the body of its loop: a language that
\* fails is given up and the next one is processed.
Raise_NextLanguage(site) == IF site \in LanguageSites THEN "loop" ELSE "failed"

\* Where control goes when the call at `site` raises: nothing in main.py
\* catches an exception, so the run ends.
Raise(site) == "failed"

(* ------------------------------ the run ------------------------------- *)

\* What an earlier run on a deck of m slides left in TMP_DIR/slide_image,
\* beside a file that is no .JPG.
StaleImages(m) == {SlideImageName(k) : k \in 1..m} \cup {<<"a", ".", "j", "p", "g">>}

InitialDirs == {{}} \cup {StaleImages(m) : m \in 1..MaxStaleSlides}

Stage(name, code) == [stage |-> name, code |-> code]

Event(op, index) == [op |-> op, index |-> index]

\* run_pipeline going through the languages from the last to the first.
Code_Reversed(l) == LANGUAGES[Len(LANGUAGES) + 1 - l].code

\* run_pipeline, line 138-139: the code of the l-th language processed.
Code(l) == LANGUAGES[l].code

Init ==
    /\ pc = "extract"
    /\ pptx_path \in PptxPaths
    /\ dir_files \in InitialDirs
    /\ appRunning = FALSE
    /\ presOpen = FALSE
    /\ notes = <<>>
    /\ images = <<>>
    /\ lang = 0
    /\ lang_notes = <<>>
    /\ audio_files = <<>>
    /\ texts = <<>>
    /\ target_language = <<>>
    /\ results = <<>>
    /\ clips = <<>>
    /\ final = <<>>
    /\ translate_calls = <<>>
    /\ translator_calls = <<>>
    /\ synth_calls = <<>>
    /\ assemble_calls = <<>>
    /\ events = <<>>
    /\ phases = <<>>
    /\ videos = <<>>
    /\ failed = FALSE
    /\ failedAt = "nowhere"

\* run_pipeline, line 135-136: extract_notes_from_pptx on the deck.
ExtractNotes ==
    /\ pc = "extract"
    /\ \E deck \in Decks :
          notes' = [i \in 1..Len(deck) |-> NotesText(deck[i])]
    /\ phases' = Append(phases, Stage("extract", <<>>))
    /\ pc' = "dispatch"
    /\ UNCHANGED << pptx_path, exportVars, translateVars, assembleVars, langVars,
                    errorVars >>

\* export_slides_as_images, line 61-62: the application is launched.
Dispatch ==
    /\ pc = "dispatch"
    /\ appRunning' = TRUE
    /\ phases' = Append(phases, Stage("export", <<>>))
    /\ pc' = "open"
    /\ UNCHANGED << pptx_path, dir_files, presOpen, images, notes, translateVars,
                    assembleVars, langVars, errorVars >>

\* export_slides_as_images, line 63-65.
OpenPresentation ==
    /\ pc = "open"
    /\ presOpen' = TRUE
    /\ pc' = "saveas"
    /\ UNCHANGED << pptx_path, dir_files, appRunning, images, notes, translateVars,
                    assembleVars, langVars, phases, errorVars >>

\* export_slides_as_images, line 66-67: one JPG per slide of the deck is
\* written, over the file of that name if there is one.
SaveAs ==
    /\ pc = "saveas"
    /\ dir_files' = dir_files \cup {SlideImageName(k) : k \in 1..Len(notes)}
    /\ pc' = "close"
    /\ UNCHANGED << pptx_path, appRunning, presOpen, images, notes, translateVars,
                    assembleVars, langVars, phases, errorVars >>

\* export_slides_as_images, line 68.
ClosePresentation ==
    /\ pc = "close"
    /\ presOpen' = FALSE
    /\ pc' = "quit"
    /\ UNCHANGED << pptx_path, dir_files, appRunning, images, notes, translateVars,
                    assembleVars, langVars, phases, errorVars >>

\* export_slides_as_images, line 69.
Quit ==
    /\ pc = "quit"
    /\ appRunning' = FALSE
    /\ pc' = "listdir"
    /\ UNCHANGED << pptx_path, dir_files, presOpen, images, notes, translateVars,
                    assembleVars, langVars, phases, errorVars >>

\* export_slides_as_images, line 70-73, and run_pipeline's assignment.
ListDir ==
    /\ pc = "listdir"
    /\ images' = ListImages(dir_files)
    /\ pc' = "loop"
    /\ UNCHANGED << pptx_path, dir_files, appRunning, presOpen, notes, translateVars,
                    assembleVars, langVars, phases, errorVars >>

\* run_pipeline, line 138-148: the next language; translate_texts is called
\* unless the language is the source language.
NextLanguage ==
    /\ pc = "loop"
    /\ lang < Len(LANGUAGES)
    /\ lang' = lang + 1
    /\ phases' = Append(phases, Stage("language", Code(lang + 1)))
    /\ audio_files' = <<>>
    /\ synth_calls' = <<>>
    /\ assemble_calls' = <<>>
    /\ translator_calls' = <<>>
    /\ results' = <<>>
    /\ IF NeedsTranslation(Code(lang + 1))
       THEN /\ texts' = notes
            /\ target_language' = Code(lang + 1)
            /\ translate_calls' =
                  << [texts |-> notes, target_language |-> Code(lang + 1)] >>
            /\ events' = << Event("translate_texts", 0) >>
            /\ lang_notes' = <<>>
            /\ pc' = "translate"
       ELSE /\ lang_notes' = notes
            /\ translate_calls' = <<>>
            /\ events' = <<>>
            /\ pc' = "narrate"
            /\ UNCHANGED << texts, target_language >>
    /\ UNCHANGED << pptx_path, exportVars, notes, clips, final, videos, errorVars >>

\* run_pipeline, line 138: the languages are exhausted.
Finish ==
    /\ pc = "loop"
    /\ lang = Len(LANGUAGES)
    /\ pc' = "done"
    /\ UNCHANGED << pptx_path, exportVars, notes, translateVars, assembleVars,
                    langVars, phases, errorVars >>

\* translate_texts, line 81-86: one text of the list.
TranslateText ==
    /\ pc = "translate"
    /\ Len(results) < Len(texts)
    /\ LET i == Len(results) + 1
           t == texts[i]
       IN  IF IsTranslated(t)
           THEN /\ \E res \in TranslatorResults(t) :
                      /\ results' = Append(results, res)
                      /\ translator_calls' =
                            Append(translator_calls,
                                   [index |-> i, text |-> t,
                                    target |-> target_language, result |-> res])
                /\ events' = Append(events, Event("translate", i))
           ELSE /\ results' = Append(results, <<>>)
                /\ UNCHANGED << translator_calls, events >>
    /\ UNCHANGED << pc, pptx_path, exportVars, notes, texts, target_language,
                    assembleVars, lang, lang_notes, audio_files, translate_calls,
                    synth_calls, phases, errorVars >>

\* translate_texts, line 87, and run_pipeline's assignment at line 143.
TranslateReturn ==
    /\ pc = "translate"
    /\ lang > 0
    /\ Len(results) = Len(texts)
    /\ lang_notes' = results
    /\ texts' = <<>>
    /\ results' = <<>>
    /\ pc' = "narrate"
    /\ UNCHANGED << pptx_path, exportVars, notes, target_language, translator_calls,
                    assembleVars, lang, audio_files, translate_calls, synth_calls,
                    events, phases, errorVars >>

\* run_pipeline, line 149-156: the narration of one slide.
SynthesizeSlide ==
    /\ pc = "narrate"
    /\ Len(audio_files) < Len(lang_notes)
    /\ LET i == Len(audio_files)
           txt == lang_notes[i + 1]
           audio_path == AudioPath(i, Code(lang))
       IN  IF IsNarrated(txt)
           THEN /\ synth_calls' =
                      Append(synth_calls,
                             [index |-> i, text |-> txt, lang_code |-> Code(lang),
                              out_path |-> audio_path])
                /\ audio_files' = Append(audio_files, audio_path)
                /\ events' = Append(events, Event("synthesize_speech", i + 1))
           ELSE /\ audio_files' = Append(audio_files, None)
                /\ UNCHANGED << synth_calls, events >>
    /\ UNCHANGED << pc, pptx_path, exportVars, notes, translateVars, assembleVars,
                    lang, lang_notes, translate_calls, phases, errorVars >>

\* run_pipeline, line 158-163: assemble_video is called.
CallAssemble ==
    /\ pc = "narrate"
    /\ Len(audio_files) = Len(lang_notes)
    /\ assemble_calls' =
          << [slide_images |-> images, audio_files |-> audio_files,
              out_path |-> OutFile(pptx_path, Code(lang))] >>
    /\ events' = Append(events, Event("assemble_video", 0))
    /\ clips' = <<>>
    /\ pc' = "assemble"
    /\ UNCHANGED << pptx_path, exportVars, notes, translateVars, final, videos, lang,
                    lang_notes, audio_files, translate_calls, synth_calls, phases,
                    errorVars >>

\* assemble_video, line 106-117: the clip of one zipped pair.
BuildClip ==
    /\ pc = "assemble"
    /\ LET call == assemble_calls[1]
           k == Len(clips) + 1
       IN  /\ k <= ZipLen(call.slide_images, call.audio_files)
           /\ \E d \in (IF HasAudio(call.audio_files[k]) THEN AudioDurations ELSE {0}) :
                 clips' = Append(clips, SlideClip(call.slide_images[k],
                                                  call.audio_files[k], d))
    /\ UNCHANGED << pc, pptx_path, exportVars, notes, translateVars, final,
                    assemble_calls, videos, langVars, phases, errorVars >>

\* assemble_video, line 119-128: the clips are joined and the file written.
WriteVideo ==
    /\ pc = "assemble"
    /\ LET call == assemble_calls[1]
       IN  /\ Len(clips) = ZipLen(call.slide_images, call.audio_files)
           /\ videos' = Append(videos, call.out_path)
    /\ final' = clips
    /\ events' = Append(events, Event("write_videofile", 0))
    /\ pc' = "saved"
    /\ UNCHANGED << pptx_path, exportVars, notes, translateVars, clips,
                    assemble_calls, lang, lang_notes, audio_files, translate_calls,
                    synth_calls, phases, errorVars >>

\* assemble_video returns, line 163-164; its locals are gone.
AssembleReturn ==
    /\ pc = "saved"
    /\ clips' = <<>>
    /\ final' = <<>>
    /\ pc' = "loop"
    /\ UNCHANGED << pptx_path, exportVars, notes, translateVars, assemble_calls,
                    videos, langVars, phases, errorVars >>

\* The position is at a call of an external collaborator, which may raise.
AtExternalCall ==
    \/ pc \in {"extract", "dispatch", "open", "saveas", "close", "quit", "listdir"}
    \/ /\ pc = "translate"
       /\ Len(results) < Len(texts)
       /\ IsTranslated(texts[Len(results) + 1])
    \/ /\ pc = "narrate"
       /\ Len(audio_files) < Len(lang_notes)
       /\ IsNarrated(lang_notes[Len(audio_files) + 1])
    \/ pc = "assemble"

\* An external call raises; no handler exists anywhere in main.py.
RaiseError ==
    /\ AtExternalCall
    /\ failed' = TRUE
    /\ failedAt' = pc
    /\ pc' = Raise(pc)
    /\ UNCHANGED << pptx_path, exportVars, notes, translateVars, assembleVars,
                    langVars, phases >>

Next ==
    \/ ExtractNotes
    \/ Dispatch
    \/ OpenPresentation
    \/ SaveAs
    \/ ClosePresentation
    \/ Quit
    \/ ListDir
    \/ NextLanguage
    \/ Finish
    \/ TranslateText
    \/ TranslateReturn
    \/ SynthesizeSlide
    \/ CallAssemble
    \/ BuildClip
    \/ WriteVideo
    \/ AssembleReturn
    \/ RaiseError

Spec == Init /\ [][Next]_vars

(* ------------------- translate_texts on its own ----------------------- *)

\* The longest list translate_texts is applied to.
MaxTexts == 3

\* The strings of those lists: empty, whitespace only, text, padded text.
TextInputs == { <<>>, <<" ">>, <<"a">>, <<" ", "a">> }

InitTranslate ==
    /\ pc = "translate"
    /\ texts \in SeqsUpTo(TextInputs, MaxTexts)
    /\ target_language \in {LANGUAGES[2].code, LANGUAGES[6].code}
    /\ results = <<>>
    /\ translator_calls = <<>>
    /\ pptx_path = <<"a", ".", "p">>
    /\ dir_files = {}
    /\ appRunning = FALSE
    /\ presOpen = FALSE
    /\ notes = <<>>
    /\ images = <<>>
    /\ lang = 0
    /\ lang_notes = <<>>
    /\ audio_files = <<>>
    /\ clips = <<>>
    /\ final = <<>>
    /\ translate_calls = <<>>
    /\ synth_calls = <<>>
    /\ assemble_calls = <<>>
    /\ events = <<>>
    /\ phases = <<>>
    /\ videos = <<>>
    /\ failed = FALSE
    /\ failedAt = "nowhere"

\* translate_texts, line 87: the list is returned to a caller other than
\* run_pipeline.
TranslateTextsReturn ==
    /\ pc = "translate"
    /\ lang = 0
    /\ Len(results) = Len(texts)
    /\ pc' = "returned"
    /\ UNCHANGED << pptx_path, exportVars, notes, translateVars, assembleVars,
                    langVars, phases, errorVars >>

NextTranslate ==
    \/ TranslateText
    \/ TranslateTextsReturn
    \/ RaiseError

SpecTranslate == InitTranslate /\ [][NextTranslate]_vars

(* ----------------------------- properties ----------------------------- *)

\* export_slides_as_images has returned to run_pipeline.
ExportReturned ==
    \/ pc \in {"loop", "translate", "narrate", "assemble", "saved", "done"}
    \/ pc = "failed" /\ failedAt \in LanguageSites

\* export_slides_as_images has ended, by returning or by raising after the
\* application was launched.
ExportEnded ==
    \/ ExportReturned
    \/ pc = "failed" /\ failedAt \in {"open", "saveas", "close", "quit", "listdir"}

\* The run is at, or has raised at, one of the given positions.
AtOrFailedAt(sites) ==
    \/ pc \in sites
    \/ pc = "failed" /\ failedAt \in sites

\* The number of calls in a log made for a given index.
CallsFor(log, index) == Cardinality({j \in DOMAIN log : log[j].index = index})

\* C1: in run_pipeline the image list and the audio list handed to
\* assemble_video both have as many entries as the deck has slides, and entry
\* i of the audio list is the narration of slide i or None, whatever the
\* rendered-image directory held before the run.
C1_ImagesAndAudioAligned ==
    assemble_calls # <<>> =>
        LET call == assemble_calls[1]
        IN  /\ Len(call.slide_images) = Len(notes)
            /\ Len(call.audio_files) = Len(notes)
            /\ \A i \in 1..Len(call.audio_files) :
                  call.audio_files[i] \in {None, AudioPath(i - 1, LANGUAGES[lang].code)}

\* C2: export_slides_as_images returns the slide images ordered by slide
\* index: the k-th path of the list is the image of the k-th slide, for every
\* slide count.
C2_ImagesInSlideOrder ==
    ExportReturned =>
        \A k \in 1..Len(notes) :
            /\ k <= Len(images)
            /\ images[k] = PathJoin(PathJoin(TMP_DIR, "slide_image"), SlideImageName(k))

\* C3: for every language, a slide whose notes are empty gets no
\* synthesize_speech call and the entry None at its index of the audio list;
\* synthesize_speech is called exactly once for each position whose text in
\* that language is non-empty after stripping whitespace, and for no other;
\* the finished audio list has one entry per slide.
C3_EmptyNotesStayAbsent ==
    AtOrFailedAt({"narrate", "assemble", "saved"}) =>
        /\ Len(audio_files) <= Len(lang_notes)
        /\ Len(lang_notes) = Len(notes)
        /\ AtOrFailedAt({"assemble", "saved"}) => Len(audio_files) = Len(notes)
        /\ \A j \in DOMAIN synth_calls : synth_calls[j].index < Len(audio_files)
        /\ \A i \in 1..Len(audio_files) :
              /\ notes[i] = <<>> =>
                    audio_files[i] = None /\ CallsFor(synth_calls, i - 1) = 0
              /\ CallsFor(synth_calls, i - 1) =
                    (IF Strip(lang_notes[i]) # <<>> THEN 1 ELSE 0)
              /\ (audio_files[i] = None) <=> (Strip(lang_notes[i]) = <<>>)

C3_Witness ==
    /\ pc = "assemble"
    /\ LANGUAGES[lang].code = <<"f", "r">>
    /\ Len(notes) = 3
    /\ notes[1] # <<>> /\ notes[2] = <<>> /\ notes[3] # <<>>
    /\ audio_files[1] # None /\ audio_files[2] = None /\ audio_files[3] # None

\* C4: for the source language "en" run_pipeline calls neither translate_texts
\* nor the translation service and the texts given to synthesize_speech are
\* the extracted notes themselves; for every other language translate_texts
\* is called once, with the whole list of extracted notes.
C4_SourceLanguageNotTranslated ==
    lang > 0 =>
        IF LANGUAGES[lang].code = <<"e", "n">>
        THEN /\ translate_calls = <<>>
             /\ translator_calls = <<>>
             /\ \A j \in DOMAIN synth_calls :
                   synth_calls[j].text = notes[synth_calls[j].index + 1]
             /\ AtOrFailedAt({"assemble", "saved"}) =>
                   [j \in DOMAIN synth_calls |-> synth_calls[j].text]
                       = SelectSeq(notes, LAMBDA n : n # <<>>)
        ELSE translate_calls =
                << [texts |-> notes, target_language |-> LANGUAGES[lang].code] >>

C4_Witness ==
    /\ pc = "saved"
    /\ LANGUAGES[lang].code = <<"e", "n">>
    /\ Len(synth_calls) = 2
    /\ translate_calls = <<>>

\* The translation service was called exactly once for index i of the list,
\* with the text at that index, and its answer is the result at that index.
TranslatedOnceAt(i) ==
    /\ CallsFor(translator_calls, i) = 1
    /\ \A j \in DOMAIN translator_calls :
          translator_calls[j].index = i =>
              /\ translator_calls[j].text = texts[i]
              /\ translator_calls[j].target = target_language
              /\ translator_calls[j].result = results[i]

\* C5 (as stated): translate_texts returns a list as long as its input; the
\* service is called exactly once for each non-empty string, its answer put at
\* the same index, and each empty string is passed through unchanged without a
\* call.
C5_TranslateTexts_AsStated ==
    pc = "returned" =>
        /\ Len(results) = Len(texts)
        /\ \A i \in 1..Len(texts) :
              IF texts[i] # <<>>
              THEN TranslatedOnceAt(i)
              ELSE results[i] = texts[i] /\ CallsFor(translator_calls, i) = 0

\* C5 (amended): translate_texts returns a list as long as its input; the
\* service is called exactly once for each string that is non-empty after
\* stripping whitespace, its answer put at the same index, and each string
\* that is empty or only whitespace gives the empty string at its index
\* without a call.
C5_TranslateTexts_Amended ==
    pc = "returned" =>
        /\ Len(results) = Len(texts)
        /\ \A i \in 1..Len(texts) :
              IF Strip(texts[i]) # <<>>
              THEN TranslatedOnceAt(i)
              ELSE results[i] = <<>> /\ CallsFor(translator_calls, i) = 0
        /\ \A j, k \in DOMAIN translator_calls :
              j < k => translator_calls[j].index < translator_calls[k].index

C5_Witness ==
    /\ pc = "returned"
    /\ texts = << <<"a">>, <<" ">>, <<>> >>
    /\ Len(translator_calls) = 1

\* C6: every clip assemble_video builds shows the image of its position for the
\* duration of the audio clip plus POST_AUDIO_PADDING when the position has an
\* audio clip, and for 4 seconds when it has none; the clips are joined in
\* list order.
C6_ClipDurations ==
    /\ \A k \in 1..Len(clips) :
          LET call == assemble_calls[1]
              aud == call.audio_files[k]
          IN  /\ clips[k].img = call.slide_images[k]
              /\ aud # None =>
                    /\ clips[k].audio.path = aud
                    /\ clips[k].audio.duration \in AudioDurations
                    /\ clips[k].duration = clips[k].audio.duration + POST_AUDIO_PADDING
              /\ aud = None =>
                    /\ clips[k].audio = None
                    /\ clips[k].duration = 40
    /\ pc = "saved" =>
          /\ final = clips
          /\ Len(final) = Min(Len(assemble_calls[1].slide_images),
                              Len(assemble_calls[1].audio_files))

C6_Witness ==
    /\ pc = "saved"
    /\ Len(final) = 2
    /\ final[1].audio = None
    /\ final[2].audio # None
    /\ final[2].duration = 25

\* stem is the file name of path without its directory and without its final
\* extension.
IsDeckBasename(stem, path) ==
    \E a \in 1..(Len(path) + 1) : \E b \in (a - 1)..Len(path) :
        LET ext == SubSeq(path, b + 1, Len(path))
        IN  /\ stem = SubSeq(path, a, b)
            /\ a = 1 \/ path[a - 1] \in {"/", "\\"}
            /\ \A i \in a..Len(path) : path[i] \notin {"/", "\\"}
            /\ IF ext = <<>>
               THEN \A i \in a..b : path[i] = "." => \A j \in a..i : path[j] = "."
               ELSE /\ ext[1] = "."
                    /\ \A i \in 2..Len(ext) : ext[i] # "."
                    /\ \E j \in a..b : path[j] # "."

\* The name <deck-basename>_<language-code>.mp4 in the output directory.
IsOutputName(file, code) ==
    /\ file.dir = "output_videos"
    /\ \E n \in 0..Len(pptx_path) :
          /\ Len(file.name) >= n
          /\ IsDeckBasename(SubSeq(file.name, 1, n), pptx_path)
          /\ SubSeq(file.name, n + 1, Len(file.name))
                = <<"_">> \o code \o <<".", "m", "p", "4">>

\* C7: run_pipeline writes one video for each language, in the output
\* directory and named <deck-basename>_<language-code>.mp4, the name it gives
\* assemble_video; the files of different languages are different; a run that
\* completes has written one for every configured language.
C7_OutputFileNames ==
    /\ Len(videos) <= Len(LANGUAGES)
    /\ \A k \in 1..Len(videos) : IsOutputName(videos[k], LANGUAGES[k].code)
    /\ \A j, k \in 1..Len(videos) : j # k => videos[j] # videos[k]
    /\ assemble_calls # <<>> =>
          IsOutputName(assemble_calls[1].out_path, LANGUAGES[lang].code)
    /\ pc = "done" => Len(videos) = Len(LANGUAGES)

C7_Witness ==
    /\ pc = "done"
    /\ Len(videos) = 6
    /\ pptx_path = <<"d", ".", "x", "/", "a", ".", "b", ".", "p">>
    /\ videos[2].name = <<"a", ".", "b", "_", "f", "r", ".", "m", "p", "4">>

\* C8: once an external call has raised, the run is over: no translation,
\* synthesis or assembly step follows and no video is written, so the videos
\* written are those of the languages before the one that failed.
C8_FailureEndsTheRun ==
    /\ [](failed => Len(videos) = (IF lang = 0 THEN 0 ELSE lang - 1))
    /\ [][failed =>
            /\ failed'
            /\ UNCHANGED << lang, translate_calls, translator_calls, synth_calls,
                            assemble_calls, events, clips, final, videos >>]_vars

C8_Witness ==
    /\ failed
    /\ failedAt = "narrate"
    /\ lang = 2
    /\ Len(synth_calls) = 1

\* C9: once export_slides_as_images has launched the application, the call
\* does not end, by returning or by raising, with the application running.
C9_ApplicationTerminated ==
    ExportEnded => ~appRunning

\* The stages of a run, in order.
ExpectedPhases ==
    << [stage |-> "extract", code |-> <<>>], [stage |-> "export", code |-> <<>>] >>
        \o [l \in 1..Len(LANGUAGES) |-> [stage |-> "language", code |-> LANGUAGES[l].code]]

\* The place of an external step in the processing of one language.
Rank(op) ==
    CASE op = "translate_texts" -> 0
      [] op = "translate" -> 1
      [] op = "synthesize_speech" -> 2
      [] op = "assemble_video" -> 3
      [] op = "write_videofile" -> 4

\* C10: notes extraction and slide rendering happen once each, before any
\* language; the languages are processed in the order of the configuration
\* list; within a language every translation precedes every synthesis call,
\* every synthesis call precedes the assemble_video call, and the video of a
\* language is written before any step of the next.
C10_SequentialOrder ==
    /\ Len(phases) <= Len(ExpectedPhases)
    /\ \A k \in 1..Len(phases) : phases[k] = ExpectedPhases[k]
    /\ lang > 0 => Len(phases) = lang + 2
    /\ ExportReturned => (notes # <<>> /\ Len(phases) >= 2)
    /\ \A j, k \in DOMAIN events :
          j < k =>
              /\ Rank(events[j].op) <= Rank(events[k].op)
              /\ Rank(events[j].op) = Rank(events[k].op) =>
                    events[j].index < events[k].index
    /\ pc \in LanguageSites => Len(videos) = lang - 1
    /\ pc \in {"saved", "loop", "done"} => Len(videos) = lang

C10_Witness ==
    /\ pc = "saved"
    /\ lang = Len(LANGUAGES)
    /\ \E j \in DOMAIN events : events[j].op = "translate"
    /\ \E j \in DOMAIN events : events[j].op = "synthesize_speech"

====
